---- MODULE Spec2Model ----
(***************************************************************************)
(* The charm source model and the charm-store publish pipeline of          *)
(* src/src/charm_source/sidecar.rs: CharmSource::resources_with_defaults,  *)
(* CharmSource::build, CharmSource::push, CharmSource::promote and         *)
(* CharmSource::upload_charm_store.                                        *)
(*                                                                         *)
(* External tools (cmd::run, cmd::get_output) are opaque: every call       *)
(* either fails or succeeds, and a call that captures output returns any   *)
(* byte string of a bounded set.  `calls` records the calls issued by the  *)
(* current invocation, in order; `tmpdirs` is the set of temporary         *)
(* directories that exist on the filesystem.                               *)
(***************************************************************************)
EXTENDS Integers, Sequences, FiniteSets, TLC

(***************************************************************************)
(* Bounds of the model.                                                    *)
(***************************************************************************)
MaxResources == 2
MaxChannels == 3
MaxUrlLen == 1
MaxTailLen == 1
MaxRecords == 2
MaxPushes == 2

(***************************************************************************)
(* Byte strings are sequences of byte values.                              *)
(***************************************************************************)
SeqUpTo(S, n) == UNION {[1..k -> S] : k \in 0..n}

\* 0x0a, the byte the push output is cut at
NL == 10

\* the key looked up in the parsed first line: "url"
UrlKey == <<117, 114, 108>>

\* another key a tool may print: "err"
OtherKey == <<101, 114, 114>>

\* ": ", YAML's mapping value indicator
KeySep == <<58, 32>>

\* "cs:", the scheme every charm store URL starts with
UrlScheme == <<99, 115, 58>>

\* bytes of the path of a charm store URL: "/" and "a"
PathBytes == {47, 97}

\* revision URLs the store answers with: "cs:" followed by a non-empty path
Urls == {UrlScheme \o p : p \in SeqUpTo(PathBytes, MaxUrlLen) \ {<<>>}}

\* what follows the first line: `docker push` logs, any bytes, newlines included
TailBytes == {NL, 97}
Tails == SeqUpTo(TailBytes, MaxTailLen)

(***************************************************************************)
(* Schema model: ResourceType, Resource, Metadata.                         *)
(***************************************************************************)
AllNames == <<"img", "db", "cfg", "aux">>
ResourceNames == {AllNames[i] : i \in 1..MaxResources}

ResourceType == {"File", "OciImage", "Pypi", "Url"}

\* Option::None
None == "None"

\* the upstream source a resource may declare, and the value a caller may
\* supply for it: one of each per resource name, all different
AllUpstream == <<"ubuntu:20.04", "postgres:13", "etc.tgz", "aux.whl">>
AllSupplied == <<"local/img:dev", "local/db:dev", "./cfg.tgz", "./aux.whl">>
Place(name) == CHOOSE i \in DOMAIN AllNames : AllNames[i] = name
UpstreamOf(name) == AllUpstream[Place(name)]
SuppliedFor(name) == AllSupplied[Place(name)]

\* struct Resource, without its description
Resource(name) == [kind : ResourceType, upstream_source : {UpstreamOf(name), None}]

\* metadata.resources: HashMap<String, Resource>
ResourceMaps ==
    UNION {{f \in [D -> UNION {Resource(k) : k \in D}] : \A k \in D : f[k] \in Resource(k)} :
               D \in SUBSET ResourceNames}

CharmNames == {"myapp"}

Metadata == [name : CharmNames, resources : ResourceMaps]

\* the caller's resource map: HashMap<String, String>
ConfiguredMaps == {[k \in D |-> SuppliedFor(k)] : D \in SUBSET ResourceNames}

AllChannels == <<"stable", "candidate", "beta", "edge">>
Reverse(seq) == [i \in DOMAIN seq |-> seq[Len(seq) + 1 - i]]

\* the channel lists a caller asks for: the first n channels, in either order
ChannelLists ==
    UNION {{SubSeq(AllChannels, 1, n), Reverse(SubSeq(AllChannels, 1, n))} : n \in 0..MaxChannels}

\* the caller's destination identifier: "cs:a"
DestUrls == {UrlScheme \o <<97>>}

(***************************************************************************)
(* JujuError values and Result values.                                     *)
(***************************************************************************)
NoErr == [kind |-> "", args |-> <<>>]
ResourceNotFound(resource, charm) ==
    [kind |-> "ResourceNotFound", args |-> <<resource, charm>>]
SubprocessError(tool, sub) == [kind |-> "SubprocessError", args |-> <<tool, sub>>]
IoError == [kind |-> "IoError", args |-> <<>>]
YamlError == [kind |-> "YamlError", args |-> <<>>]

EmptyMap == [x \in {} |-> ""]

(***************************************************************************)
(* resources_with_defaults                                                 *)
(***************************************************************************)
\* a bug: the upstream default wins over the caller's value
ResolveOne_DefaultFirst(meta, configured, k) ==
    IF meta.resources[k].upstream_source # None
    THEN [ok |-> TRUE, key |-> k, val |-> meta.resources[k].upstream_source, err |-> NoErr]
    ELSE IF k \in DOMAIN configured
    THEN [ok |-> TRUE, key |-> k, val |-> configured[k], err |-> NoErr]
    ELSE [ok |-> FALSE, key |-> k, val |-> "", err |-> ResourceNotFound(k, meta.name)]

\* a bug: the error's fields are swapped
ResolveOne_SwappedError(meta, configured, k) ==
    IF k \in DOMAIN configured
    THEN [ok |-> TRUE, key |-> k, val |-> configured[k], err |-> NoErr]
    ELSE IF meta.resources[k].upstream_source # None
    THEN [ok |-> TRUE, key |-> k, val |-> meta.resources[k].upstream_source, err |-> NoErr]
    ELSE [ok |-> FALSE, key |-> k, val |-> "", err |-> ResourceNotFound(meta.name, k)]

\* the closure of the map: one declared resource k with its value v
ResolveOne(meta, configured, k) ==
    IF k \in DOMAIN configured
    THEN [ok |-> TRUE, key |-> k, val |-> configured[k], err |-> NoErr]
    ELSE IF meta.resources[k].upstream_source # None
    THEN [ok |-> TRUE, key |-> k, val |-> meta.resources[k].upstream_source, err |-> NoErr]
    ELSE [ok |-> FALSE, key |-> k, val |-> "", err |-> ResourceNotFound(k, meta.name)]

\* collect::<Result<HashMap, _>>(): items are taken in iteration order and the
\* first Err ends the collection
RECURSIVE Collect(_, _, _, _)
Collect(meta, configured, order, acc) ==
    IF order = <<>>
    THEN [ok |-> TRUE, map |-> acc, err |-> NoErr]
    ELSE LET r == ResolveOne(meta, configured, Head(order))
         IN  IF r.ok
             THEN Collect(meta, configured, Tail(order), (r.key :> r.val) @@ acc)
             ELSE [ok |-> FALSE, map |-> EmptyMap, err |-> r.err]

\* the orders a HashMap with key set D may be iterated in
IterationOrders(D) ==
    {o \in [1..Cardinality(D) -> D] : \A i, j \in DOMAIN o : i # j => o[i] # o[j]}

\* a bug: the caller's map is iterated instead of the declared resources
ResourcesWithDefaults_OverConfigured(meta, configured, order) ==
    [ok |-> TRUE, map |-> configured, err |-> NoErr]

\* resources_with_defaults under one iteration order of metadata.resources
ResourcesWithDefaults(meta, configured, order) ==
    Collect(meta, configured, order, EmptyMap)

(***************************************************************************)
(* The first line of the `charm push` output.                              *)
(***************************************************************************)
\* a bug: the output is cut at its last newline byte
NewlinePosition_Last(bytes) ==
    IF \E i \in DOMAIN bytes : bytes[i] = NL
    THEN CHOOSE i \in DOMAIN bytes :
             bytes[i] = NL /\ \A j \in DOMAIN bytes : bytes[j] = NL => j <= i
    ELSE 0

\* output.iter().position(|&x| x == 0x0a): the 1-based place of the first
\* newline byte, 0 for Option::None
NewlinePosition(bytes) ==
    IF \E i \in DOMAIN bytes : bytes[i] = NL
    THEN CHOOSE i \in DOMAIN bytes :
             bytes[i] = NL /\ \A j \in DOMAIN bytes : bytes[j] = NL => i <= j
    ELSE 0

\* Vec::truncate(len): the first len bytes
Truncate(bytes, len) == SubSeq(bytes, 1, len)

RECURSIVE TrimSpaces(_)
TrimSpaces(bytes) ==
    IF bytes = <<>> THEN bytes
    ELSE IF Head(bytes) = 32 THEN TrimSpaces(Tail(bytes))
    ELSE IF bytes[Len(bytes)] = 32 THEN TrimSpaces(SubSeq(bytes, 1, Len(bytes) - 1))
    ELSE bytes

\* a ":" that ends the line or is followed by a space is YAML's mapping
\* value indicator; any other ":" is part of a plain scalar
IsIndicator(bytes, i) ==
    bytes[i] = 58 /\ (i = Len(bytes) \/ bytes[i + 1] = 32)

FirstIndicator(bytes) ==
    IF \E i \in DOMAIN bytes : IsIndicator(bytes, i)
    THEN CHOOSE i \in DOMAIN bytes :
             IsIndicator(bytes, i) /\ \A j \in DOMAIN bytes : IsIndicator(bytes, j) => i <= j
    ELSE 0

EmptyDoc == [x \in {} |-> <<>>]

\* serde_yaml::from_slice::<HashMap<String, String>> of one line of block
\* YAML: `key: value` with plain scalars is a map of one entry; a line that
\* is empty or a bare scalar is no map, and a null key or value is no String
FromSlice(line) ==
    LET p == FirstIndicator(line)
        key == TrimSpaces(SubSeq(line, 1, p - 1))
        val == TrimSpaces(SubSeq(line, p + 1, Len(line)))
    IN  IF p = 0 \/ key = <<>> \/ val = <<>> \/ FirstIndicator(val) # 0
        THEN [ok |-> FALSE, map |-> EmptyDoc]
        ELSE [ok |-> TRUE, map |-> (key :> val)]

\* lines 228-235 after the call: cut at the first newline (unwrap panics
\* when there is none), parse (`?`), index by "url" (panics when absent)
ExtractUrl(output) ==
    LET p == NewlinePosition(output)
        parsed == FromSlice(Truncate(output, p - 1))
    IN  IF p = 0 THEN [tag |-> "Panic", url |-> <<>>, err |-> NoErr]
        ELSE IF ~parsed.ok THEN [tag |-> "Err", url |-> <<>>, err |-> YamlError]
        ELSE IF UrlKey \notin DOMAIN parsed.map
             THEN [tag |-> "Panic", url |-> <<>>, err |-> NoErr]
        ELSE [tag |-> "Ok", url |-> parsed.map[UrlKey], err |-> NoErr]

\* what `charm push` prints on success: a first line `url: U`, a newline and
\* the logs of `docker push`
WellFormedOutputs == {UrlKey \o KeySep \o u \o <<NL>> \o t : u \in Urls, t \in Tails}

\* outputs without a newline byte
UnterminatedOutputs == {<<>>} \cup {UrlKey \o KeySep \o u : u \in Urls}

\* outputs whose first line is a map without a `url` field, a bare scalar
\* or empty
NoUrlOutputs ==
    {OtherKey \o KeySep \o u \o <<NL>> : u \in Urls}
        \cup {u \o <<NL>> : u \in Urls} \cup {<<NL>>}

PushOutputs == WellFormedOutputs \cup UnterminatedOutputs \cup NoUrlOutputs

(***************************************************************************)
(* External calls: one record per cmd::run / cmd::get_output.              *)
(***************************************************************************)
Call(tool, sub, u, arg, d, res, revs) ==
    [tool |-> tool, sub |-> sub, url |-> u, arg |-> arg, dir |-> d,
     resources |-> res, revs |-> revs]

\* an entry of `calls`: the call and whether it succeeded
Issued(call, ok) == [call |-> call, ok |-> ok]

\* charmcraft pack -p <source> [--destructive-mode]
CharmcraftPack(destructive_mode) ==
    Call("charmcraft", "pack", <<>>,
         IF destructive_mode THEN "--destructive-mode" ELSE "", 0, {}, <<>>)

\* unzip <artifact> -d <build_dir>
Unzip(build_dir) == Call("unzip", "", <<>>, "", build_dir, {}, <<>>)

\* docker pull <value>
DockerPull(value) == Call("docker", "pull", <<>>, value, 0, {}, <<>>)

\* charm push <build_dir> <cs_url> (--resource <k>=<v>)*
CharmPush(build_dir, cs_url, map) ==
    Call("charm", "push", cs_url, "", build_dir,
         {<<k, map[k]>> : k \in DOMAIN map}, <<>>)

\* git rev-parse HEAD
GitRevParse == Call("git", "rev-parse", <<>>, "HEAD", 0, {}, <<>>)

\* the commit `git rev-parse HEAD` prints
Revision == "0a1b2c"

\* charm set <rev_url> commit=<revision>
CharmSet(u, revision) == Call("charm", "set", u, revision, 0, {}, <<>>)

\* charm list-resources <rev_url> --format yaml
CharmListResources(u) == Call("charm", "list-resources", u, "", 0, {}, <<>>)

\* charm release <rev_url> --channel <to> (--resource <name>-<revision>)*
CharmRelease(u, channel, revs) == Call("charm", "release", u, channel, 0, {}, revs)

\* the revision of each resource in the store
AllRevisions == <<"3", "5", "1", "2">>

\* the records `charm list-resources` lists, in the store's order
ListedRecords ==
    [i \in 1..MaxRecords |-> [name |-> AllNames[i], revision |-> AllRevisions[i]]]

\* the same list with its last record lacking the revision
WithoutRevision(records) ==
    [i \in DOMAIN records |->
        IF i = Len(records) THEN [name |-> records[i].name] ELSE records[i]]

\* what the query prints: a document that is no list of maps, or a list:
\* the empty one, the full one, the one with a record cut short
Unparsable == [parsed |-> FALSE, records |-> <<>>]
ListOutputs ==
    {Unparsable} \cup
    {[parsed |-> TRUE, records |-> rs] :
         rs \in {<<>>, ListedRecords, WithoutRevision(ListedRecords)}}

\* a bug: the arguments are passed in reverse
ReleaseResources_Reversed(records) ==
    IF \E i \in DOMAIN records : {"name", "revision"} \ DOMAIN records[i] # {}
    THEN [tag |-> "Panic", revs |-> <<>>]
    ELSE [tag |-> "Ok",
          revs |-> [i \in DOMAIN records |->
                       <<records[Len(records) + 1 - i]["name"],
                         records[Len(records) + 1 - i]["revision"]>>]]

\* lines 265-270: one `name-revision` pair per record; HashMap's Index
\* panics on a record without the field
ReleaseResources(records) ==
    IF \E i \in DOMAIN records : {"name", "revision"} \ DOMAIN records[i] # {}
    THEN [tag |-> "Panic", revs |-> <<>>]
    ELSE [tag |-> "Ok",
          revs |-> [i \in DOMAIN records |-> <<records[i]["name"], records[i]["revision"]>>]]

(***************************************************************************)
(* CharmSource::load: what is at the source path, and what load makes of   *)
(* it.  A file is modelled by how far reading it gets.                     *)
(***************************************************************************)
ZipError == [kind |-> "ZipError", args |-> <<>>]

\* Option<T>: None, Some(x)
NoneOf == <<>>
Some(x) == <<x>>

\* the charm's config.yaml, parsed
Configs == {[options |-> EmptyMap]}

\* config.yaml or metadata.yaml, as a file of the directory or an entry of
\* the archive:
\*   absent       there is none (NotFound, FileNotFound)
\*   unopenable   it is there and cannot be opened: fs::read fails
\*                (permissions, a directory of that name), by_name fails
\*                (an encrypted entry, an unsupported compression)
\*   undecodable  its bytes are not UTF-8
\*   malformed    it is no document of the schema
\*   null         it is the YAML document `null`
\*   valid        it is a document of the schema, `doc`
FileStates == {"absent", "unopenable", "undecodable", "malformed", "null"}
File(state) == [state |-> state, doc |-> NoneOf]
Valid(doc) == [state |-> "valid", doc |-> Some(doc)]
ConfigFiles == {File(st) : st \in FileStates} \cup {Valid(c) : c \in Configs}
MetadataFiles == {File(st) : st \in FileStates} \cup {Valid(m) : m \in Metadata}

\* the source path: a directory (or nothing: is_file() is false), or a
\* regular file that opens or not and is a zip archive or not
Sources ==
    [form : {"dir"}, archive : {"ok"}, config : ConfigFiles, metadata : MetadataFiles]
    \cup [form : {"file"}, archive : {"ok"}, config : ConfigFiles, metadata : MetadataFiles]
    \cup [form : {"file"}, archive : {"unopenable", "invalid"},
          config : {File("absent")}, metadata : {File("absent")}]

Loaded(config, metadata) ==
    [tag |-> "Ok", config |-> config, metadata |-> Some(metadata), err |-> NoErr]
LoadFailed(e) == [tag |-> "Err", config |-> NoneOf, metadata |-> NoneOf, err |-> e]
NotLoaded == [tag |-> "none", config |-> NoneOf, metadata |-> NoneOf, err |-> NoErr]

\* from_slice::<Option<Config>>: the `null` document is None
ConfigFromSlice(file) ==
    CASE file.state = "valid" -> [ok |-> TRUE, config |-> file.doc, err |-> NoErr]
      [] file.state = "null" -> [ok |-> TRUE, config |-> NoneOf, err |-> NoErr]
      [] OTHER -> [ok |-> FALSE, config |-> NoneOf, err |-> YamlError]

\* lines 130-132: read(..).map(from_slice).unwrap_or(Ok(None))?: every
\* failure of read is Ok(None)
DirConfig(file) ==
    IF file.state \in {"absent", "unopenable"}
    THEN [ok |-> TRUE, config |-> NoneOf, err |-> NoErr]
    ELSE ConfigFromSlice(file)

\* line 133: from_slice(&read(..)?)?
DirMetadata(file) ==
    CASE file.state \in {"absent", "unopenable"} -> [ok |-> FALSE, doc |-> NoneOf, err |-> IoError]
      [] file.state = "valid" -> [ok |-> TRUE, doc |-> file.doc, err |-> NoErr]
      [] OTHER -> [ok |-> FALSE, doc |-> NoneOf, err |-> YamlError]

\* lines 129-140
LoadDir(source) ==
    LET c == DirConfig(source.config)
        m == DirMetadata(source.metadata)
    IN  IF ~c.ok THEN LoadFailed(c.err)
        ELSE IF ~m.ok THEN LoadFailed(m.err)
        ELSE Loaded(c.config, m.doc[1])

\* lines 144-151: by_name(..).map(read and parse).unwrap_or(Ok(None))?:
\* every failure of by_name is Ok(None); a failure of read_to_string or of
\* from_slice is handed on
ZipConfig(file) ==
    CASE file.state \in {"absent", "unopenable"} -> [ok |-> TRUE, config |-> NoneOf, err |-> NoErr]
      [] file.state = "undecodable" -> [ok |-> FALSE, config |-> NoneOf, err |-> IoError]
      [] OTHER -> ConfigFromSlice(file)

\* lines 153-158: by_name(..)?, read_to_string(..)?, from_slice(..)?
ZipMetadata(file) ==
    CASE file.state \in {"absent", "unopenable"} -> [ok |-> FALSE, doc |-> NoneOf, err |-> ZipError]
      [] file.state = "undecodable" -> [ok |-> FALSE, doc |-> NoneOf, err |-> IoError]
      [] file.state = "valid" -> [ok |-> TRUE, doc |-> file.doc, err |-> NoErr]
      [] OTHER -> [ok |-> FALSE, doc |-> NoneOf, err |-> YamlError]

\* lines 142-165
LoadZip(source) ==
    LET c == ZipConfig(source.config)
        m == ZipMetadata(source.metadata)
    IN  IF source.archive = "unopenable" THEN LoadFailed(IoError)
        ELSE IF source.archive = "invalid" THEN LoadFailed(ZipError)
        ELSE IF ~c.ok THEN LoadFailed(c.err)
        ELSE IF ~m.ok THEN LoadFailed(m.err)
        ELSE Loaded(c.config, m.doc[1])

\* lines 168-174
Load(source) == IF source.form = "file" THEN LoadZip(source) ELSE LoadDir(source)

\* a charm directory without config.yaml that holds this metadata.yaml
DirOf(meta) ==
    [form |-> "dir", archive |-> "ok", config |-> File("absent"), metadata |-> Valid(meta)]

(***************************************************************************)
(* upload_charmhub: the calls it makes and the outputs it reads.           *)
(***************************************************************************)
\* 0x20, the byte the upload output is cut at
SP == 32

\* line 344: output.drain(0..9)
PrefixLen == 9

\* a bug: the output is cut at its last space
SpacePosition_Last(bytes) ==
    IF \E i \in DOMAIN bytes : bytes[i] = SP
    THEN CHOOSE i \in DOMAIN bytes :
             bytes[i] = SP /\ \A j \in DOMAIN bytes : bytes[j] = SP => j <= i
    ELSE 0

\* position(|&x| x == 0x20), and the place split(' ') first splits at: the
\* 1-based place of the first space, 0 for Option::None
SpacePosition(bytes) ==
    IF \E i \in DOMAIN bytes : bytes[i] = SP
    THEN CHOOSE i \in DOMAIN bytes :
             bytes[i] = SP /\ \A j \in DOMAIN bytes : bytes[j] = SP => i <= j
    ELSE 0

\* the pieces between newline bytes
RECURSIVE SplitLines(_)
SplitLines(bytes) ==
    LET p == NewlinePosition(bytes)
    IN  IF p = 0 THEN <<bytes>>
        ELSE <<SubSeq(bytes, 1, p - 1)>> \o SplitLines(SubSeq(bytes, p + 1, Len(bytes)))

\* str::lines(): the final line ending is optional, so an empty last piece
\* is no line (the outputs here hold no carriage return)
Lines(bytes) ==
    LET ps == SplitLines(bytes)
    IN  IF ps[Len(ps)] = <<>> THEN SubSeq(ps, 1, Len(ps) - 1) ELSE ps

\* split(' ').next(): the line up to its first space, or all of it
FirstToken(line) ==
    LET p == SpacePosition(line)
    IN  IF p = 0 THEN line ELSE SubSeq(line, 1, p - 1)

\* line 331: lines().nth(1), the second line
RevisionLine == 2

\* line 331: output.lines().nth(1).unwrap().split(' ').next().unwrap():
\* nth(1) is None, and unwrap panics, when there are fewer than two lines
ResourceRevision(output) ==
    LET ls == Lines(output)
    IN  IF Len(ls) < RevisionLine THEN [tag |-> "Panic", revision |-> <<>>]
        ELSE [tag |-> "Ok", revision |-> FirstToken(ls[RevisionLine])]

\* what `charmcraft resource-revisions` prints: a header line "R" and one
\* row per revision, newest first ("4 x", "3 x"); or less than that
RevisionsOutputs ==
    {<<>>, <<82>>, <<82, NL>>,
     <<82, NL, 51>>,
     <<82, NL, 51, SP, 120, NL>>,
     <<82, NL, 52, SP, 120, NL, 51, SP, 120, NL>>}

\* "4294967295", u32::MAX
U32Max == <<52, 50, 57, 52, 57, 54, 55, 50, 57, 53>>

IsDigits(bytes) == bytes # <<>> /\ \A i \in DOMAIN bytes : bytes[i] \in 48..57

\* a decimal numeral without its leading zeros ("0" for zero)
RECURSIVE StripZeros(_)
StripZeros(digits) ==
    IF Len(digits) > 1 /\ Head(digits) = 48 THEN StripZeros(Tail(digits)) ELSE digits

\* numerals without leading zeros, compared as numbers
FitsU32(digits) ==
    \/ Len(digits) < Len(U32Max)
    \/ /\ Len(digits) = Len(U32Max)
       /\ \/ digits = U32Max
          \/ \E i \in DOMAIN digits :
                 /\ digits[i] < U32Max[i]
                 /\ \A j \in 1..(i - 1) : digits[j] = U32Max[j]

\* str::parse::<u32>(): an optional "+", one or more decimal digits, and a
\* value of at most u32::MAX; the value is kept as its decimal numeral
ParseU32(bytes) ==
    LET digits == IF bytes # <<>> /\ Head(bytes) = 43 THEN Tail(bytes) ELSE bytes
    IN  IF IsDigits(digits) /\ FitsU32(StripZeros(digits))
        THEN [ok |-> TRUE, value |-> StripZeros(digits)]
        ELSE [ok |-> FALSE, value |-> <<>>]

\* from_utf8: of the bytes used here only 0xff is not ASCII, and no UTF-8
\* string holds it
IsUtf8(bytes) == \A i \in DOMAIN bytes : bytes[i] < 128

\* lines 344-346: drop nine bytes (drain panics on a shorter output), cut at
\* the first space (unwrap panics when there is none), decode and parse
\* (unwrap panics on either failure)
ExtractRevision(output) ==
    LET rest == SubSeq(output, PrefixLen + 1, Len(output))
        p == SpacePosition(rest)
        n == ParseU32(Truncate(rest, p - 1))
    IN  IF Len(output) < PrefixLen \/ p = 0 \/ ~IsUtf8(Truncate(rest, p - 1)) \/ ~n.ok
        THEN [tag |-> "Panic", revision |-> <<>>]
        ELSE [tag |-> "Ok", revision |-> n.value]

\* lines 348-351: the destination identifier with its revision set,
\* "<url>-<revision>"
WithRevision(u, revision) == u \o <<45>> \o revision

\* nine bytes: "Revision ", and "1 1 1 1 1"
UploadPrefixes ==
    {<<82, 101, 118, 105, 115, 105, 111, 110, SP>>, <<49, SP, 49, SP, 49, SP, 49, SP, 49>>}

\* decimal numbers: "7", "007", "42", u32::MAX and u32::MAX + 1
UploadNumbers ==
    {<<55>>, <<48, 48, 55>>, <<52, 50>>, U32Max, <<52, 50, 57, 52, 57, 54, 55, 50, 57, 54>>}

\* what follows the space: nothing, "of", " 9 "
UploadTails == {<<>>, <<111, 102>>, <<SP, 57, SP>>}

\* what `charmcraft upload` prints, as the code expects it: "Revision N
\* of ..."
NumberedOutputs ==
    {p \o n \o <<SP>> \o t : p \in UploadPrefixes, n \in UploadNumbers, t \in UploadTails}

\* other outputs: empty, eight bytes, no space after the number, a number
\* with a sign, no number, a word, a byte that is no text
OtherOutputs ==
    {<<>>, <<82, 101, 118, 105, 115, 105, 111, 110>>,
     <<82, 101, 118, 105, 115, 105, 111, 110, SP, 55>>,
     <<82, 101, 118, 105, 115, 105, 111, 110, SP, 43, 55, SP>>,
     <<82, 101, 118, 105, 115, 105, 111, 110, SP, SP>>,
     <<82, 101, 118, 105, 115, 105, 111, 110, SP, 120, SP>>,
     <<82, 101, 118, 105, 115, 105, 111, 110, SP, 255, SP>>}

UploadOutputs == NumberedOutputs \cup OtherOutputs

\* charmcraft upload-resource <charm> <name> --image <value>
CharmcraftUploadResource(charm, name, value) ==
    Call("charmcraft", "upload-resource", <<>>, name, 0, {<<name, value>>}, <<>>)

\* charmcraft resource-revisions <charm> <name>
CharmcraftResourceRevisions(charm, name) ==
    Call("charmcraft", "resource-revisions", <<>>, name, 0, {}, <<>>)

\* a bug: the channels are passed in reverse
ReleaseArgs_Reversed(channels) ==
    [i \in DOMAIN channels |-> <<"--release=", channels[Len(channels) + 1 - i], <<>>>>]

\* line 339: one --release=<channel> per channel
ReleaseArgs(channels) == [i \in DOMAIN channels |-> <<"--release=", channels[i], <<>>>>]

\* line 333: --resource=<name>:<revision>
ResourceArg(name, revision) == <<"--resource=", name, revision>>

\* charmcraft upload <artifact> (--release=<channel>)* (--resource=<name>:<revision>)*
CharmcraftUpload(channels, resource_args) ==
    Call("charmcraft", "upload", <<>>, "", 0, {}, ReleaseArgs(channels) \o resource_args)

(***************************************************************************)
(* State.                                                                  *)
(***************************************************************************)
VARIABLES
    fs,          \* what is at the source path
    loaded,      \* what CharmSource::load returned
    listed,      \* promote's `resources`: the records list-resources returned
    metadata,    \* self.metadata
    op,          \* the public method that is running, "" when none is
    pc,          \* where it is
    url,         \* upload_charm_store's arguments
    configured,
    to,
    destructive_mode,
    resources,   \* push's `resources`: the result of resources_with_defaults
    pending,     \* what the `for (name, value) in resources` loop has left
    dir,         \* push's `dir`, 0 while there is none
    tmpdirs,     \* the temporary directories that exist
    created,     \* every temporary directory created so far, in order
    stdout,      \* the bytes `charm push` printed
    rev_url,     \* push's `rev_url`, then upload_charm_store's
    chan,        \* the place in `to` of the loop of upload_charm_store
    revs,        \* promote's --resource arguments
    calls,       \* the external calls of this invocation, in order
    stages,      \* what build, push and each promote returned, and the last Err
    result       \* what upload_charm_store returned

vars == <<fs, loaded, listed, metadata, op, pc, url, configured, to, destructive_mode, resources,
          pending, dir, tmpdirs, created, stdout, rev_url, chan, revs, calls,
          stages, result>>

NoResources == [tag |-> "none", map |-> EmptyMap, err |-> NoErr]
NoResult == [tag |-> "none", url |-> <<>>, err |-> NoErr]
NoStages == [build |-> "none", push |-> "none", promote |-> <<>>, err |-> NoErr]

\* CharmSource::load has built the charm; nothing runs
Init ==
    /\ metadata \in Metadata
    /\ fs = DirOf(metadata)
    /\ loaded = Load(fs)
    /\ listed = <<>>
    /\ op = ""
    /\ pc = "idle"
    /\ url = <<>>
    /\ configured = EmptyMap
    /\ to = <<>>
    /\ destructive_mode = FALSE
    /\ resources = NoResources
    /\ pending = {}
    /\ dir = 0
    /\ tmpdirs = {}
    /\ created = <<>>
    /\ stdout = <<>>
    /\ rev_url = <<>>
    /\ chan = 0
    /\ revs = <<>>
    /\ calls = <<>>
    /\ stages = NoStages
    /\ result = NoResult

(***************************************************************************)
(* How the methods end.                                                    *)
(***************************************************************************)
argv == <<url, configured, to, destructive_mode>>

\* upload_charm_store ends: Ok(url), Err(e), or a panic that unwinds
Returned(tag, e, u) ==
    /\ result' = [tag |-> tag, url |-> u, err |-> e]
    /\ pc' = IF tag = "Panic" THEN "panicked" ELSE "done"

\* a bug: the directory is kept (TempDir::into_path)
DropDir_Kept(dirs, d) == dirs

\* Drop for TempDir: the directory is removed
DropDir(dirs, d) == dirs \ {d}

\* push ends, by return or by unwinding: `dir` goes out of scope, and
\* line 284 hands an Err to the caller (`?`) or binds rev_url
PushEnds(tag, e, u) ==
    /\ tmpdirs' = DropDir(tmpdirs, dir)
    /\ dir' = 0
    /\ pending' = {}
    /\ stages' = [stages EXCEPT !.push = tag, !.err = e]
    /\ IF tag = "Ok"
       THEN /\ rev_url' = u
            /\ chan' = 1
            /\ pc' = "promote"
            /\ UNCHANGED result
       ELSE /\ rev_url' = <<>>
            /\ UNCHANGED chan
            /\ Returned(tag, e, <<>>)

\* a bug: the loop goes on to the next channel after a failed promote
PromoteEnds_Continue(tag, e) ==
    /\ stages' = [stages EXCEPT !.promote = Append(@, tag), !.err = e]
    /\ revs' = <<>>
    /\ listed' = <<>>
    /\ chan' = chan + 1
    /\ pc' = "promote"
    /\ UNCHANGED result

\* promote ends: line 287 hands an Err to the caller (`?`) or the loop
\* goes on to the next channel
PromoteEnds(tag, e) ==
    /\ stages' = [stages EXCEPT !.promote = Append(@, tag), !.err = e]
    /\ revs' = <<>>
    /\ listed' = <<>>
    /\ IF tag = "Ok"
       THEN /\ chan' = chan + 1
            /\ pc' = "promote"
            /\ UNCHANGED result
       ELSE /\ UNCHANGED chan
            /\ Returned(tag, e, <<>>)

(***************************************************************************)
(* upload_charm_store: build                                               *)
(***************************************************************************)
\* upload_charm_store is called
UploadCharmStore(u, c, t, d) ==
    /\ pc = "idle"
    /\ op' = "upload_charm_store"
    /\ pc' = "build"
    /\ url' = u
    /\ configured' = c
    /\ to' = t
    /\ destructive_mode' = d
    /\ UNCHANGED <<fs, loaded, listed, metadata, resources, pending, dir, tmpdirs, created, stdout,
                   rev_url, chan, revs, calls, stages, result>>

\* what build returns when `charmcraft pack` fails
BuildError == SubprocessError("charmcraft", "pack")

\* a bug: the result of build is dropped
BuildThen_Ignored(ok) ==
    /\ pc' = "tempdir"
    /\ UNCHANGED result

\* line 283: self.build(destructive_mode)?
BuildThen(ok) ==
    IF ok
    THEN /\ pc' = "tempdir"
         /\ UNCHANGED result
    ELSE Returned("Err", BuildError, <<>>)

\* lines 177-186: charmcraft pack
Build(ok) ==
    /\ pc = "build"
    /\ calls' = Append(calls, Issued(CharmcraftPack(destructive_mode), ok))
    /\ stages' = [stages EXCEPT !.build = IF ok THEN "Ok" ELSE "Err",
                                 !.err = IF ok THEN NoErr ELSE BuildError]
    /\ BuildThen(ok)
    /\ UNCHANGED <<fs, loaded, listed, metadata, op, argv, resources, pending, dir, tmpdirs, created,
                   stdout, rev_url, chan, revs>>

(***************************************************************************)
(* push                                                                    *)
(***************************************************************************)
\* TempDir::new(): a directory that was not there before
NewTempDir(before) == Len(before) + 1

\* line 195: TempDir::new()? creates the directory
TempDirNew ==
    /\ pc = "tempdir"
    /\ dir' = NewTempDir(created)
    /\ tmpdirs' = tmpdirs \cup {dir'}
    /\ created' = Append(created, dir')
    /\ pc' = "unzip"
    /\ UNCHANGED <<fs, loaded, listed, metadata, op, argv, resources, pending, stdout, rev_url, chan,
                   revs, calls, stages, result>>

\* line 195: TempDir::new()? fails, and there is no directory
TempDirFails ==
    /\ pc = "tempdir"
    /\ PushEnds("Err", IoError, <<>>)
    /\ UNCHANGED <<fs, loaded, listed, metadata, op, argv, resources, created, stdout, revs, calls>>

\* lines 189 and 198: artifact_path unwraps current_dir(), which panics when
\* the working directory cannot be read
CurrentDirFails ==
    /\ pc = "unzip"
    /\ PushEnds("Panic", NoErr, <<>>)
    /\ UNCHANGED <<fs, loaded, listed, metadata, op, argv, resources, created, stdout, revs, calls>>

\* lines 197-202: unzip <artifact> -d <build_dir>
UnzipArtifact(ok) ==
    /\ pc = "unzip"
    /\ calls' = Append(calls, Issued(Unzip(dir), ok))
    /\ IF ok
       THEN /\ pc' = "resolve"
            /\ UNCHANGED <<tmpdirs, dir, pending, stages, rev_url, chan, result>>
       ELSE PushEnds("Err", SubprocessError("unzip", ""), <<>>)
    /\ UNCHANGED <<fs, loaded, listed, metadata, op, argv, resources, created, stdout, revs>>

\* line 204: self.resources_with_defaults(resources)?
Resolve(order) ==
    /\ pc = "resolve"
    /\ LET r == ResourcesWithDefaults(metadata, configured, order)
       IN  /\ resources' = [tag |-> IF r.ok THEN "Ok" ELSE "Err", map |-> r.map, err |-> r.err]
           /\ IF r.ok
              THEN /\ pending' = DOMAIN r.map
                   /\ pc' = "pull"
                   /\ UNCHANGED <<tmpdirs, dir, stages, rev_url, chan, result>>
              ELSE PushEnds("Err", r.err, <<>>)
    /\ UNCHANGED <<fs, loaded, listed, metadata, op, argv, created, stdout, revs, calls>>

\* a bug: everything that is not a file is pulled
NeedsPull_NotFile(res) == res.kind # "File"

\* line 221: only oci-image resources are pulled
NeedsPull(res) == res.kind = "OciImage"

\* one turn of the loop of lines 218-226 that issues no call: the resource
\* is no oci-image (`continue`), or is not declared (`expect` panics)
SkipResource(name) ==
    /\ pc = "pull"
    /\ name \in pending
    /\ IF name \notin DOMAIN metadata.resources
       THEN PushEnds("Panic", NoErr, <<>>)
       ELSE /\ ~NeedsPull(metadata.resources[name])
            /\ pending' = pending \ {name}
            /\ UNCHANGED <<pc, tmpdirs, dir, stages, rev_url, chan, result>>
    /\ UNCHANGED <<fs, loaded, listed, metadata, op, argv, resources, created, stdout, revs, calls>>

\* one turn of the loop that pulls
PullImage(name, ok) ==
    /\ pc = "pull"
    /\ name \in pending
    /\ name \in DOMAIN metadata.resources
    /\ NeedsPull(metadata.resources[name])
    /\ calls' = Append(calls, Issued(DockerPull(resources.map[name]), ok))
    /\ IF ok
       THEN /\ pending' = pending \ {name}
            /\ UNCHANGED <<pc, tmpdirs, dir, stages, rev_url, chan, result>>
       ELSE PushEnds("Err", SubprocessError("docker", "pull"), <<>>)
    /\ UNCHANGED <<fs, loaded, listed, metadata, op, argv, resources, created, stdout, revs>>

\* line 228: `charm push` fails
CharmPushFails ==
    /\ pc = "pull"
    /\ pending = {}
    /\ calls' = Append(calls, Issued(CharmPush(dir, url, resources.map), FALSE))
    /\ PushEnds("Err", SubprocessError("charm", "push"), <<>>)
    /\ UNCHANGED <<fs, loaded, listed, metadata, op, argv, resources, created, stdout, revs>>

\* lines 228-235: `charm push` succeeds and prints `output`
CharmPushPrints(output) ==
    /\ pc = "pull"
    /\ pending = {}
    /\ calls' = Append(calls, Issued(CharmPush(dir, url, resources.map), TRUE))
    /\ stdout' = output
    /\ LET x == ExtractUrl(output)
       IN  IF x.tag = "Ok"
           THEN /\ rev_url' = x.url
                /\ pc' = "rev_parse"
                /\ UNCHANGED <<tmpdirs, dir, pending, stages, chan, result>>
           ELSE PushEnds(x.tag, x.err, <<>>)
    /\ UNCHANGED <<fs, loaded, listed, metadata, op, argv, resources, created, revs>>

\* a bug: the failure to get the commit is handed on
RevParseFailed_Propagated == PushEnds("Err", SubprocessError("git", "rev-parse"), <<>>)

\* lines 244-252: the failure is printed and push returns Ok(rev_url)
RevParseFailed == PushEnds("Ok", NoErr, rev_url)

\* line 239: git rev-parse HEAD
RevParse(ok) ==
    /\ pc = "rev_parse"
    /\ calls' = Append(calls, Issued(GitRevParse, ok))
    /\ IF ok
       THEN /\ pc' = "charm_set"
            /\ UNCHANGED <<tmpdirs, dir, pending, stages, rev_url, chan, result>>
       ELSE RevParseFailed
    /\ stdout' = <<>>
    /\ UNCHANGED <<fs, loaded, listed, metadata, op, argv, resources, created, revs>>

\* line 242: cmd::run("charm", &["set", ...])?, then line 252
TagRevision(ok) ==
    /\ pc = "charm_set"
    /\ calls' = Append(calls, Issued(CharmSet(rev_url, Revision), ok))
    /\ IF ok
       THEN PushEnds("Ok", NoErr, rev_url)
       ELSE PushEnds("Err", SubprocessError("charm", "set"), <<>>)
    /\ stdout' = <<>>
    /\ UNCHANGED <<fs, loaded, listed, metadata, op, argv, resources, created, revs>>

(***************************************************************************)
(* promote, and the loop of upload_charm_store                             *)
(***************************************************************************)
\* lines 257-260: `charm list-resources` fails
ListResourcesFails ==
    /\ pc = "promote"
    /\ chan <= Len(to)
    /\ calls' = Append(calls, Issued(CharmListResources(rev_url), FALSE))
    /\ PromoteEnds("Err", SubprocessError("charm", "list-resources"))
    /\ UNCHANGED <<fs, loaded, metadata, op, argv, resources, pending, dir, tmpdirs, created,
                   stdout, rev_url>>

\* lines 257-271: `charm list-resources` prints `output`
ListResourcesPrints(output) ==
    /\ pc = "promote"
    /\ chan <= Len(to)
    /\ calls' = Append(calls, Issued(CharmListResources(rev_url), TRUE))
    /\ LET a == ReleaseResources(output.records)
       IN  IF ~output.parsed THEN PromoteEnds("Err", YamlError)
           ELSE IF a.tag = "Panic" THEN PromoteEnds("Panic", NoErr)
           ELSE /\ revs' = a.revs
                /\ listed' = output.records
                /\ pc' = "release"
                /\ UNCHANGED <<stages, chan, result>>
    /\ UNCHANGED <<fs, loaded, metadata, op, argv, resources, pending, dir, tmpdirs, created,
                   stdout, rev_url>>

\* line 273: charm release
Release(ok) ==
    /\ pc = "release"
    /\ calls' = Append(calls, Issued(CharmRelease(rev_url, to[chan], revs), ok))
    /\ IF ok
       THEN PromoteEnds("Ok", NoErr)
       ELSE PromoteEnds("Err", SubprocessError("charm", "release"))
    /\ UNCHANGED <<fs, loaded, metadata, op, argv, resources, pending, dir, tmpdirs, created,
                   stdout, rev_url>>

\* a bug: the caller's destination identifier is returned
Finish_ReturnsDest ==
    /\ pc = "promote"
    /\ chan > Len(to)
    /\ Returned("Ok", NoErr, url)
    /\ UNCHANGED <<fs, loaded, listed, metadata, op, argv, resources, pending, dir, tmpdirs,
                   created, stdout, rev_url, chan, revs, calls, stages>>

\* line 290: every channel is done
Finish ==
    /\ pc = "promote"
    /\ chan > Len(to)
    /\ Returned("Ok", NoErr, rev_url)
    /\ UNCHANGED <<fs, loaded, listed, metadata, op, argv, resources, pending, dir, tmpdirs, created,
                   stdout, rev_url, chan, revs, calls, stages>>

(***************************************************************************)
(* upload_charmhub                                                         *)
(***************************************************************************)
\* upload_charmhub is called
UploadCharmhub(u, c, t, d) ==
    /\ pc = "idle"
    /\ op' = "upload_charmhub"
    /\ pc' = "hub_build"
    /\ url' = u
    /\ configured' = c
    /\ to' = t
    /\ destructive_mode' = d
    /\ UNCHANGED <<fs, loaded, listed, metadata, resources, pending, dir, tmpdirs, created,
                   stdout, rev_url, chan, revs, calls, stages, result>>

\* line 300: self.build(destructive_mode)?
HubBuild(ok) ==
    /\ pc = "hub_build"
    /\ calls' = Append(calls, Issued(CharmcraftPack(destructive_mode), ok))
    /\ IF ok
       THEN /\ pc' = "hub_resolve"
            /\ UNCHANGED result
       ELSE Returned("Err", BuildError, <<>>)
    /\ UNCHANGED <<fs, loaded, listed, metadata, op, argv, resources, pending, dir, tmpdirs,
                   created, stdout, rev_url, chan, revs, stages>>

\* a bug: the pipeline goes on without the resources that are missing
HubResolved_Lenient(r) ==
    /\ pending' = DOMAIN r.map
    /\ pc' = "hub_resources"
    /\ UNCHANGED result

\* line 302: the `?` of self.resources_with_defaults(resources)?
HubResolved(r) ==
    IF r.ok
    THEN /\ pending' = DOMAIN r.map
         /\ pc' = "hub_resources"
         /\ UNCHANGED result
    ELSE /\ UNCHANGED pending
         /\ Returned("Err", r.err, <<>>)

\* line 302: self.resources_with_defaults(resources)?
HubResolve(order) ==
    /\ pc = "hub_resolve"
    /\ LET r == ResourcesWithDefaults(metadata, configured, order)
       IN  /\ resources' = [tag |-> IF r.ok THEN "Ok" ELSE "Err", map |-> r.map, err |-> r.err]
           /\ HubResolved(r)
    /\ UNCHANGED <<fs, loaded, listed, metadata, op, argv, dir, tmpdirs, created, stdout,
                   rev_url, chan, revs, calls, stages>>

\* one turn of the filter_map of lines 304-335 that issues no call: the
\* resource is no oci-image (`return None`), or is not declared (`expect`
\* panics)
HubSkipResource(name) ==
    /\ pc = "hub_resources"
    /\ name \in pending
    /\ IF name \notin DOMAIN metadata.resources
       THEN /\ Returned("Panic", NoErr, <<>>)
            /\ UNCHANGED pending
       ELSE /\ ~NeedsPull(metadata.resources[name])
            /\ pending' = pending \ {name}
            /\ UNCHANGED <<pc, result>>
    /\ UNCHANGED <<fs, loaded, listed, metadata, op, argv, resources, dir, tmpdirs, created,
                   stdout, rev_url, chan, revs, calls, stages>>

\* one turn of the filter_map for an oci-image, lines 313-333: upload-resource
\* (unwrap), resource-revisions (unwrap), the revision of its second line
\* (unwrap), and the argument for the upload
HubUploadResource(name, uploaded, queried, output) ==
    /\ pc = "hub_resources"
    /\ name \in pending
    /\ name \in DOMAIN metadata.resources
    /\ NeedsPull(metadata.resources[name])
    /\ LET upload == Issued(CharmcraftUploadResource(metadata.name, name, resources.map[name]),
                            uploaded)
           list == Issued(CharmcraftResourceRevisions(metadata.name, name), queried)
           r == ResourceRevision(output)
       IN  IF ~uploaded
           THEN /\ calls' = Append(calls, upload)
                /\ Returned("Panic", NoErr, <<>>)
                /\ UNCHANGED <<pending, revs>>
           ELSE IF ~queried \/ r.tag = "Panic"
           THEN /\ calls' = calls \o <<upload, list>>
                /\ Returned("Panic", NoErr, <<>>)
                /\ UNCHANGED <<pending, revs>>
           ELSE /\ calls' = calls \o <<upload, list>>
                /\ revs' = Append(revs, ResourceArg(name, r.revision))
                /\ pending' = pending \ {name}
                /\ UNCHANGED <<pc, result>>
    /\ UNCHANGED <<fs, loaded, listed, metadata, op, argv, resources, dir, tmpdirs, created,
                   stdout, rev_url, chan, stages>>

\* lines 189 and 337: artifact_path unwraps current_dir(), which panics when
\* the working directory cannot be read
HubCurrentDirFails ==
    /\ pc = "hub_resources"
    /\ pending = {}
    /\ Returned("Panic", NoErr, <<>>)
    /\ UNCHANGED <<fs, loaded, listed, metadata, op, argv, resources, pending, dir, tmpdirs,
                   created, stdout, rev_url, chan, revs, calls, stages>>

\* a bug: a failed upload is tried again
HubUploadFails_Retry ==
    /\ pc = "hub_resources"
    /\ pending = {}
    /\ Len(calls) < 2 * MaxResources + 3
    /\ calls' = Append(calls, Issued(CharmcraftUpload(to, revs), FALSE))
    /\ UNCHANGED <<fs, loaded, listed, metadata, op, pc, argv, resources, pending, dir, tmpdirs,
                   created, stdout, rev_url, chan, revs, stages, result>>

\* line 343: `charmcraft upload` fails
HubUploadFails ==
    /\ pc = "hub_resources"
    /\ pending = {}
    /\ calls' = Append(calls, Issued(CharmcraftUpload(to, revs), FALSE))
    /\ Returned("Err", SubprocessError("charmcraft", "upload"), <<>>)
    /\ UNCHANGED <<fs, loaded, listed, metadata, op, argv, resources, pending, dir, tmpdirs,
                   created, stdout, rev_url, chan, revs, stages>>

\* lines 343-351: `charmcraft upload` succeeds and prints `output`
HubUploadPrints(output) ==
    /\ pc = "hub_resources"
    /\ pending = {}
    /\ calls' = Append(calls, Issued(CharmcraftUpload(to, revs), TRUE))
    /\ stdout' = output
    /\ LET x == ExtractRevision(output)
       IN  IF x.tag = "Ok"
           THEN Returned("Ok", NoErr, WithRevision(url, x.revision))
           ELSE Returned("Panic", NoErr, <<>>)
    /\ UNCHANGED <<fs, loaded, listed, metadata, op, argv, resources, pending, dir, tmpdirs,
                   created, rev_url, chan, revs, stages>>

(***************************************************************************)
(* resources_with_defaults called on its own, and the next invocation      *)
(***************************************************************************)
\* resources_with_defaults is called and returns
MergeResources(c, order) ==
    /\ pc = "idle"
    /\ op' = "resources_with_defaults"
    /\ configured' = c
    /\ LET r == ResourcesWithDefaults(metadata, c, order)
       IN  resources' = [tag |-> IF r.ok THEN "Ok" ELSE "Err", map |-> r.map, err |-> r.err]
    /\ pc' = "done"
    /\ UNCHANGED <<fs, loaded, listed, metadata, url, to, destructive_mode, pending, dir, tmpdirs, created,
                   stdout, rev_url, chan, revs, calls, stages, result>>

\* the caller has the result; the CharmSource is as it was
NextInvocation ==
    /\ pc = "done"
    /\ Len(created) < MaxPushes
    /\ op' = ""
    /\ pc' = "idle"
    /\ url' = <<>>
    /\ configured' = EmptyMap
    /\ to' = <<>>
    /\ destructive_mode' = FALSE
    /\ resources' = NoResources
    /\ pending' = {}
    /\ stdout' = <<>>
    /\ rev_url' = <<>>
    /\ chan' = 0
    /\ revs' = <<>>
    /\ calls' = <<>>
    /\ stages' = NoStages
    /\ result' = NoResult
    /\ UNCHANGED <<fs, loaded, listed, metadata, dir, tmpdirs, created>>

Next ==
    \/ \E u \in DestUrls, c \in ConfiguredMaps, t \in ChannelLists, d \in BOOLEAN :
           UploadCharmStore(u, c, t, d)
    \/ \E ok \in BOOLEAN : Build(ok)
    \/ TempDirNew
    \/ TempDirFails
    \/ CurrentDirFails
    \/ \E ok \in BOOLEAN : UnzipArtifact(ok)
    \/ \E order \in IterationOrders(DOMAIN metadata.resources) : Resolve(order)
    \/ \E name \in ResourceNames : SkipResource(name)
    \/ \E name \in ResourceNames, ok \in BOOLEAN : PullImage(name, ok)
    \/ CharmPushFails
    \/ \E output \in PushOutputs : CharmPushPrints(output)
    \/ \E ok \in BOOLEAN : RevParse(ok)
    \/ \E ok \in BOOLEAN : TagRevision(ok)
    \/ ListResourcesFails
    \/ \E output \in ListOutputs : ListResourcesPrints(output)
    \/ \E ok \in BOOLEAN : Release(ok)
    \/ Finish
    \/ \E c \in ConfiguredMaps, order \in IterationOrders(DOMAIN metadata.resources) :
           MergeResources(c, order)
    \/ NextInvocation

Spec == Init /\ [][Next]_vars

\* resources_with_defaults alone, called any number of times
NextResolve ==
    \/ \E c \in ConfiguredMaps, order \in IterationOrders(DOMAIN metadata.resources) :
           MergeResources(c, order)
    \/ NextInvocation

SpecResolve == Init /\ [][NextResolve]_vars

\* upload_charmhub alone, called any number of times
NextCharmhub ==
    \/ \E u \in DestUrls, c \in ConfiguredMaps, t \in ChannelLists, d \in BOOLEAN :
           UploadCharmhub(u, c, t, d)
    \/ \E ok \in BOOLEAN : HubBuild(ok)
    \/ \E order \in IterationOrders(DOMAIN metadata.resources) : HubResolve(order)
    \/ \E name \in ResourceNames : HubSkipResource(name)
    \/ \E name \in ResourceNames, uploaded, queried \in BOOLEAN, output \in RevisionsOutputs :
           HubUploadResource(name, uploaded, queried, output)
    \/ HubCurrentDirFails
    \/ HubUploadFails
    \/ \E output \in UploadOutputs : HubUploadPrints(output)
    \/ NextInvocation

SpecCharmhub == Init /\ [][NextCharmhub]_vars

\* both pipelines and the resolver
NextPublish == Next \/ NextCharmhub

SpecPublish == Init /\ [][NextPublish]_vars

(***************************************************************************)
(* CharmSource::load, and then the CharmSource in use                      *)
(***************************************************************************)
NoMetadata == [name |-> "", resources |-> EmptyMap]

\* nothing is loaded yet
InitLoad ==
    /\ fs \in Sources
    /\ loaded = NotLoaded
    /\ listed = <<>>
    /\ metadata = NoMetadata
    /\ op = ""
    /\ pc = "unloaded"
    /\ url = <<>>
    /\ configured = EmptyMap
    /\ to = <<>>
    /\ destructive_mode = FALSE
    /\ resources = NoResources
    /\ pending = {}
    /\ dir = 0
    /\ tmpdirs = {}
    /\ created = <<>>
    /\ stdout = <<>>
    /\ rev_url = <<>>
    /\ chan = 0
    /\ revs = <<>>
    /\ calls = <<>>
    /\ stages = NoStages
    /\ result = NoResult

\* lines 168-174: CharmSource::load(source)
LoadSource ==
    /\ pc = "unloaded"
    /\ loaded' = Load(fs)
    /\ IF loaded'.tag = "Ok"
       THEN /\ metadata' = loaded'.metadata[1]
            /\ pc' = "idle"
       ELSE /\ pc' = "failed"
            /\ UNCHANGED metadata
    /\ UNCHANGED <<fs, listed, op, argv, resources, pending, dir, tmpdirs, created, stdout,
                   rev_url, chan, revs, calls, stages, result>>

NextLoad ==
    \/ LoadSource
    \/ \E c \in ConfiguredMaps, order \in IterationOrders(DOMAIN metadata.resources) :
           MergeResources(c, order)
    \/ NextInvocation

SpecLoad == InitLoad /\ [][NextLoad]_vars

(***************************************************************************)
(* Claims about resources_with_defaults.                                   *)
(***************************************************************************)
Declared == DOMAIN metadata.resources

\* the declared resources with neither a supplied value nor a default
Missing ==
    {k \in Declared : k \notin DOMAIN configured /\ metadata.resources[k].upstream_source = None}

\* C1: resources_with_defaults succeeds exactly when every declared resource
\* is supplied or has an upstream source, and then the keys of the result are
\* the declared names: supplied names that are not declared are not in it
\* and do not make it fail.
C1_SuccessIffResolvable ==
    resources.tag # "none" =>
        /\ (resources.tag = "Ok") <=> (Missing = {})
        /\ resources.tag = "Ok" => DOMAIN resources.map = Declared

\* a success with two declared resources, one of them resolved by its
\* default, and a supplied name that is not declared
C1_Witness ==
    /\ resources.tag = "Ok"
    /\ DOMAIN configured \ Declared # {}
    /\ Declared \ DOMAIN configured # {}
    /\ DOMAIN resources.map = Declared

\* C2: in a successful result every declared resource has the supplied value
\* when there is one, also when it declares an upstream source, and its
\* upstream source otherwise.
C2_SuppliedThenDefault ==
    resources.tag = "Ok" =>
        \A r \in Declared :
            /\ r \in DOMAIN resources.map
            /\ resources.map[r] =
                   IF r \in DOMAIN configured THEN configured[r]
                   ELSE metadata.resources[r].upstream_source

\* a success where one resource has both a supplied value and a default
\* and another has the default only
C2_Witness ==
    /\ resources.tag = "Ok"
    /\ \E r \in Declared :
           r \in DOMAIN configured /\ metadata.resources[r].upstream_source # None
    /\ \E r \in Declared :
           r \notin DOMAIN configured /\ resources.map[r] = UpstreamOf(r)

\* C3: when a declared resource is missing from the supplied map and has no
\* default, the result is ResourceNotFound(resource, charm) where resource
\* is such a missing resource and charm is metadata.name.
C3_NotFoundNamesMissing ==
    (resources.tag # "none" /\ Missing # {}) =>
        /\ resources.tag = "Err"
        /\ resources.err.kind = "ResourceNotFound"
        /\ resources.err.args[1] \in Missing
        /\ resources.err.args[2] = metadata.name

\* a failure of a charm that also declares a resource that resolves
C3_Witness ==
    /\ resources.tag = "Err"
    /\ Missing # {}
    /\ Declared \ Missing # {}
    /\ resources.err = ResourceNotFound(CHOOSE k \in Missing : TRUE, metadata.name)


(***************************************************************************)
(* Claims about upload_charm_store.                                        *)
(***************************************************************************)
IsCall(e, tool, sub) == e.call.tool = tool /\ e.call.sub = sub
IsBuildCall(e) == IsCall(e, "charmcraft", "pack")
IsDockerPull(e) == IsCall(e, "docker", "pull")
IsCharmPush(e) == IsCall(e, "charm", "push")
IsRevParse(e) == IsCall(e, "git", "rev-parse")
IsCharmSet(e) == IsCall(e, "charm", "set")
IsListResources(e) == IsCall(e, "charm", "list-resources")
IsRelease(e) == IsCall(e, "charm", "release")
IsPushStageCall(e) ==
    \/ IsCall(e, "unzip", "")
    \/ IsDockerPull(e)
    \/ IsCharmPush(e)
    \/ IsRevParse(e)
    \/ IsCharmSet(e)
IsPromoteStageCall(e) == IsListResources(e) \/ IsRelease(e)

\* the stage that returned Err, if one did
FailedStage ==
    IF stages.build = "Err" THEN "build"
    ELSE IF stages.push = "Err" THEN "push"
    ELSE IF \E n \in DOMAIN stages.promote : stages.promote[n] = "Err" THEN "promote"
    ELSE ""

\* C4: build, push and promote run in this order: a call of the push stage
\* is issued only after build succeeded, a call of the promote stage only
\* after push returned success; the Err of a stage is what the caller gets,
\* and the last call issued is one of the stage that failed.
C4_StagesInOrder ==
    /\ \A i \in DOMAIN calls :
           /\ IsBuildCall(calls[i]) => i = 1
           /\ IsPushStageCall(calls[i]) =>
                  /\ stages.build = "Ok"
                  /\ i > 1 /\ IsBuildCall(calls[1]) /\ calls[1].ok
           /\ IsPromoteStageCall(calls[i]) =>
                  /\ stages.push = "Ok"
                  /\ \A j \in DOMAIN calls : ~IsPromoteStageCall(calls[j]) => j < i
    /\ FailedStage # "" =>
           /\ pc = "done"
           /\ result = [tag |-> "Err", url |-> <<>>, err |-> stages.err]
    /\ FailedStage = "build" => Len(calls) = 1
    /\ FailedStage = "push" => \A i \in DOMAIN calls : ~IsPromoteStageCall(calls[i])
    /\ FailedStage = "promote" => IsPromoteStageCall(calls[Len(calls)])
    /\ stages.push = "Panic" => result.tag = "Panic"

\* push failed at a docker pull although channels were asked for: the
\* caller has that failure
C4_Witness ==
    /\ pc = "done"
    /\ stages.build = "Ok"
    /\ stages.push = "Err"
    /\ Len(to) >= 2
    /\ IsDockerPull(calls[Len(calls)])
    /\ result.err = SubprocessError("docker", "pull")

Releases == SelectSeq(calls, IsRelease)
Queries == SelectSeq(calls, IsListResources)

\* C5: promote runs once per entry of `to`, in list order; when the promote
\* of position N returns Err the caller gets that Err, the releases of the
\* positions before N have been issued, and nothing is issued for a
\* position after N.
C5_PromoteInListOrder ==
    /\ Len(Queries) <= Len(to)
    /\ Len(Releases) <= Len(Queries)
    /\ Len(Queries) <= Len(Releases) + 1
    /\ \A k \in DOMAIN Releases : Releases[k].call.arg = to[k]
    /\ Len(stages.promote) <= Len(Queries)
    /\ result.tag = "Ok" =>
           /\ Len(Releases) = Len(to)
           /\ \A k \in DOMAIN Releases : Releases[k].ok
    /\ \A n \in DOMAIN stages.promote :
           /\ n < Len(stages.promote) => stages.promote[n] = "Ok" /\ Releases[n].ok
           /\ stages.promote[n] # "Ok" =>
                  /\ n = Len(stages.promote)
                  /\ result.tag = stages.promote[n]
                  /\ stages.promote[n] = "Err" => result.err = stages.err /\ pc = "done"
                  /\ Len(Queries) = n
                  /\ Len(Releases) \in {n - 1, n}
                  /\ \A k \in 1..(n - 1) : Releases[k].ok /\ Releases[k].call.arg = to[k]

\* the release of the second of three channels failed
C5_Witness ==
    /\ Len(to) = 3
    /\ stages.promote = <<"Ok", "Err">>
    /\ Len(Releases) = 2
    /\ Releases[1].ok /\ ~Releases[2].ok
    /\ result.err = SubprocessError("charm", "release")

InPush == pc \in {"unzip", "resolve", "pull", "rev_parse", "charm_set"}

\* C7: the temporary directory of push exists while push runs and on no
\* other occasion, however push ends; every push creates a directory that
\* no earlier push had.
C7_TempDirRemoved ==
    /\ ~InPush => tmpdirs = {} /\ dir = 0
    /\ InPush => dir # 0 /\ tmpdirs = {dir} /\ dir = created[Len(created)]
    /\ \A i, j \in DOMAIN created : i # j => created[i] # created[j]

\* the second push of a charm source has failed at a docker pull
C7_Witness ==
    /\ Len(created) = 2
    /\ pc = "done"
    /\ stages.push = "Err"
    /\ IsDockerPull(calls[Len(calls)])
    /\ tmpdirs = {}

\* the values of the resolved oci-image resources
OciValues ==
    {resources.map[k] : k \in {d \in Declared \cap DOMAIN resources.map :
                                   metadata.resources[d].kind = "OciImage"}}

\* C8: `docker pull` is issued with the resolved value of an oci-image
\* resource and for nothing else, once per resource, and when `charm push`
\* is issued every oci-image resource has been pulled with success.
C8_PullsExactlyOciImages ==
    \A i \in DOMAIN calls :
        /\ IsDockerPull(calls[i]) =>
               /\ calls[i].call.arg \in OciValues
               /\ \A j \in DOMAIN calls :
                      (IsDockerPull(calls[j]) /\ calls[j].call.arg = calls[i].call.arg) => j = i
        /\ IsCharmPush(calls[i]) =>
               /\ {calls[j].call.arg :
                       j \in {x \in 1..(i - 1) : IsDockerPull(calls[x]) /\ calls[x].ok}} = OciValues
               /\ \A j \in DOMAIN calls : IsDockerPull(calls[j]) => j < i /\ calls[j].ok

\* the image of the upstream source was pulled before the push, and the
\* charm also declares a resource of another kind
C8_Witness ==
    /\ configured = EmptyMap
    /\ \E i \in DOMAIN calls :
           /\ IsCharmPush(calls[i])
           /\ \E j \in 1..(i - 1) : calls[j] = Issued(DockerPull("ubuntu:20.04"), TRUE)
    /\ \E d \in Declared : metadata.resources[d].kind = "Pypi"

\* the outputs that are a first line `url: U`, a newline and more bytes;
\* n is the place of the newline
IsUrlLine(output, n) ==
    /\ n \in DOMAIN output
    /\ n > 6
    /\ output[n] = NL
    /\ \A m \in 1..(n - 1) : output[m] # NL
    /\ SubSeq(output, 1, 5) = UrlKey \o KeySep

\* C9: when `charm push` prints `url: U`, a newline and any bytes, the
\* revision URL of push is U.
C9_UrlOfFirstLine ==
    \A n \in DOMAIN stdout :
        IsUrlLine(stdout, n) => pc = "rev_parse" /\ rev_url = SubSeq(stdout, 6, n - 1)

\* the output goes on after its first line, with another newline
C9_Witness ==
    /\ pc = "rev_parse"
    /\ \E n \in DOMAIN stdout : IsUrlLine(stdout, n) /\ Len(stdout) > n /\ stdout[Len(stdout)] = NL
    /\ rev_url \in Urls

\* C10, as the spec states it: when `charm push` succeeds and its output has
\* no newline byte or no `url` field in its first line, upload_charm_store
\* returns an Err.
C10_MalformedOutputIsAnErr ==
    (/\ calls # <<>>
     /\ IsCharmPush(calls[Len(calls)])
     /\ calls[Len(calls)].ok
     /\ \A n \in DOMAIN stdout : ~IsUrlLine(stdout, n)) =>
        pc = "done" /\ result.tag = "Err"

\* C11, as the spec states it: whenever push has failed, no `charm push`
\* call of the invocation has completed successfully (a failed push leaves
\* no committed revision).
C11_FailedPushNotCommitted ==
    stages.push \in {"Err", "Panic"} =>
        \A i \in DOMAIN calls : IsCharmPush(calls[i]) => ~calls[i].ok

(***************************************************************************)
(* C12                                                                     *)
(***************************************************************************)
LoadReturned == loaded.tag # "none"

\* C12, as the spec states it: load fails when metadata.yaml is absent;
\* load succeeds with config = None when metadata.yaml is valid and
\* config.yaml is absent; and config = None results only from the absence
\* of config.yaml.
C12_ConfigNoneOnlyIfAbsent ==
    LoadReturned =>
        /\ fs.metadata.state = "absent" => loaded.tag = "Err"
        /\ (fs.archive = "ok" /\ fs.metadata.state = "valid" /\ fs.config.state = "absent") =>
               loaded.tag = "Ok" /\ loaded.config = NoneOf
        /\ (loaded.tag = "Ok" /\ loaded.config = NoneOf) => fs.config.state = "absent"

(***************************************************************************)
(* C13                                                                     *)
(***************************************************************************)
IsUploadResource(e) == IsCall(e, "charmcraft", "upload-resource")
IsResourceRevisions(e) == IsCall(e, "charmcraft", "resource-revisions")
IsUpload(e) == IsCall(e, "charmcraft", "upload")
Uploads == SelectSeq(calls, IsUpload)
InCharmhub == op = "upload_charmhub"

\* the resolved resources that are oci-images
OciNames == {k \in DOMAIN resources.map : metadata.resources[k].kind = "OciImage"}

\* the arguments of an upload call that carry this flag, in order
IsReleaseArg(a) == a[1] = "--release="
IsResourceArg(a) == a[1] = "--resource="

\* C13: a successful upload_charmhub has issued exactly one `charmcraft
\* upload`, as its last call; the call carries one --release=<channel> per
\* entry of `to`, in the caller's order, and one --resource=<name>:<revision>
\* per resolved oci-image resource; and upload_charmhub never issues a
\* release call of its own.
C13_OneUploadReleasesAll ==
    InCharmhub =>
        /\ \A i \in DOMAIN calls : ~IsRelease(calls[i])
        /\ result.tag = "Ok" =>
               /\ Len(Uploads) = 1
               /\ IsUpload(calls[Len(calls)])
               /\ LET args == calls[Len(calls)].call.revs
                      res == SelectSeq(args, IsResourceArg)
                  IN  /\ SelectSeq(args, IsReleaseArg) =
                             [k \in DOMAIN to |-> <<"--release=", to[k], <<>>>>]
                      /\ Len(args) = Len(to) + Len(res)
                      /\ Len(res) = Cardinality(OciNames)
                      /\ \A k \in OciNames : \E j \in DOMAIN res : res[j][2] = k
                      /\ \A k \in OciNames :
                             \E j \in DOMAIN calls :
                                 /\ IsResourceRevisions(calls[j])
                                 /\ calls[j].call.arg = k
                                 /\ j < Len(calls)

\* three channels in the caller's order, which is not the order of the
\* channels' ranks, and two oci-images
C13_Witness ==
    /\ InCharmhub
    /\ result.tag = "Ok"
    /\ to = <<"beta", "candidate", "stable">>
    /\ Cardinality(OciNames) = 2
    /\ Len(calls) = 6

(***************************************************************************)
(* C14                                                                     *)
(***************************************************************************)
\* an upload output shorter than nine bytes, or without a space after them,
\* or whose bytes up to that space are no decimal number
MalformedUpload(output) ==
    \/ Len(output) < PrefixLen
    \/ LET rest == SubSeq(output, PrefixLen + 1, Len(output))
       IN  \/ \A i \in DOMAIN rest : rest[i] # SP
           \/ \E i \in DOMAIN rest :
                  /\ rest[i] \notin 48..57
                  /\ \A j \in 1..i : rest[j] # SP

\* C14, as the spec states it: in upload_charmhub a failed external call, or
\* a malformed output of a call that succeeded, makes the operation return
\* an Err; it neither panics nor returns a URL.
C14_HubFailuresAreTyped ==
    (/\ InCharmhub
     /\ calls # <<>>
     /\ \/ ~calls[Len(calls)].ok
        \/ IsUpload(calls[Len(calls)]) /\ MalformedUpload(stdout)) =>
        pc = "done" /\ result.tag = "Err"

(***************************************************************************)
(* C15                                                                     *)
(***************************************************************************)
InPipeline == op \in {"upload_charm_store", "upload_charmhub"}

\* C15: in both pipelines a failed external call other than `git rev-parse
\* HEAD` is the last call of its invocation, which has ended at once and not
\* in success; and no call that failed is issued again.
C15_FailFastNoRetry ==
    InPipeline =>
        \A i \in DOMAIN calls :
            ~calls[i].ok =>
                /\ ~IsRevParse(calls[i]) =>
                       /\ i = Len(calls)
                       /\ pc \in {"done", "panicked"}
                       /\ result.tag \in {"Err", "Panic"}
                /\ \A j \in (i + 1)..Len(calls) : calls[j].call # calls[i].call

\* upload_charm_store went on after `git rev-parse HEAD` failed, and ended
\* at the release that failed next
C15_Witness ==
    /\ op = "upload_charm_store"
    /\ pc = "done"
    /\ result.tag = "Err"
    /\ Len(calls) > 1
    /\ IsRelease(calls[Len(calls)])
    /\ ~calls[Len(calls)].ok
    /\ \E i \in 1..(Len(calls) - 1) : IsRevParse(calls[i]) /\ ~calls[i].ok

(***************************************************************************)
(* C16                                                                     *)
(***************************************************************************)
IsUnzip(e) == IsCall(e, "unzip", "")

\* the calls that come before the resolver: build, then for the store
\* backend unzip, each made once and successful
BeforeResolver ==
    IF op = "upload_charm_store"
    THEN <<Issued(CharmcraftPack(destructive_mode), TRUE), Issued(Unzip(created[Len(created)]), TRUE)>>
    ELSE <<Issued(CharmcraftPack(destructive_mode), TRUE)>>

\* C16: when a declared resource has neither a supplied value nor an upstream
\* default, neither pipeline ever issues a call other than the build call and
\* (store backend) the unzip call, and neither ends in success; the resolver,
\* reached after these calls have succeeded, makes the pipeline return
\* ResourceNotFound for a missing resource of this charm.
C16_ResolverFailsClosed ==
    (InPipeline /\ Missing # {}) =>
        /\ \A i \in DOMAIN calls :
               \/ IsBuildCall(calls[i])
               \/ op = "upload_charm_store" /\ IsUnzip(calls[i])
        /\ result.tag # "Ok"
        /\ resources.tag # "none" =>
               /\ pc = "done"
               /\ result.tag = "Err"
               /\ \E k \in Missing : result.err = ResourceNotFound(k, metadata.name)
               /\ calls = BeforeResolver
        /\ (/\ pc \in {"done", "panicked"}
            /\ op = "upload_charm_store"
            /\ created # <<>>
            /\ calls = BeforeResolver) =>
               /\ result.tag = "Err"
               /\ result.err.kind = "ResourceNotFound"
        /\ (pc \in {"done", "panicked"} /\ InCharmhub /\ calls = BeforeResolver) =>
               /\ result.tag = "Err"
               /\ result.err.kind = "ResourceNotFound"

\* upload_charmhub of a charm with an oci-image that resolves and a resource
\* that does not: nothing is uploaded
C16_Witness ==
    /\ InCharmhub
    /\ pc = "done"
    /\ result.err = ResourceNotFound("db", "myapp")
    /\ "img" \in Declared \ Missing
    /\ metadata.resources["img"].kind = "OciImage"
    /\ calls = <<Issued(CharmcraftPack(destructive_mode), TRUE)>>

(***************************************************************************)
(* C17                                                                     *)
(***************************************************************************)
\* C17: whenever promote issues `charm release`, the call before it is the
\* `charm list-resources` query of the same revision URL, which succeeded
\* and parsed; the release names the channel promote was called for and
\* carries one `--resource <name>-<revision>` per record the query returned,
\* in the order returned.
C17_QueryThenRelease ==
    [][(Len(calls') = Len(calls) + 1 /\ IsRelease(calls'[Len(calls')])) =>
          /\ calls # <<>>
          /\ IsListResources(calls[Len(calls)])
          /\ calls[Len(calls)].ok
          /\ calls[Len(calls)].call.url = calls'[Len(calls')].call.url
          /\ calls'[Len(calls')].call.arg = to[chan]
          /\ \A i \in DOMAIN listed : {"name", "revision"} \subseteq DOMAIN listed[i]
          /\ calls'[Len(calls')].call.revs =
                 [i \in DOMAIN listed |-> <<listed[i]["name"], listed[i]["revision"]>>]
      ]_vars

\* the second channel is released with the two records the query listed
C17_Witness ==
    \E i \in DOMAIN calls :
        /\ i > 1
        /\ IsRelease(calls[i])
        /\ calls[i].call.arg = "candidate"
        /\ calls[i].call.revs = <<<<"img", "3">>, <<"db", "5">>>>
        /\ IsListResources(calls[i - 1])
        /\ Len(SelectSeq(SubSeq(calls, 1, i), IsRelease)) = 2

(***************************************************************************)
(* C18                                                                     *)
(***************************************************************************)
\* the outputs that are nine bytes, a decimal number, a space and more
\* bytes; p is the place of that space
IsNumbered(output, p) ==
    /\ p \in DOMAIN output
    /\ p > PrefixLen + 1
    /\ output[p] = SP
    /\ \A m \in (PrefixLen + 1)..(p - 1) : output[m] \in 48..57

\* `charmcraft upload` has succeeded and printed stdout
Uploaded ==
    /\ InCharmhub
    /\ calls # <<>>
    /\ IsUpload(calls[Len(calls)])
    /\ calls[Len(calls)].ok

\* C18, as the spec states it: for every decimal number N in the upload
\* output, upload_charmhub returns `url` with its revision set to N.
C18_RevisionOfEveryNumber ==
    Uploaded =>
        \A p \in DOMAIN stdout :
            IsNumbered(stdout, p) =>
                /\ pc = "done"
                /\ result.tag = "Ok"
                /\ result.url = WithRevision(url, StripZeros(SubSeq(stdout, PrefixLen + 1, p - 1)))

\* C18, amended: for every decimal number N of at most u32::MAX in the upload
\* output, upload_charmhub returns `url` with its revision set to N, whatever
\* the nine bytes before it and the bytes after the space are.
C18_RevisionOfU32Number ==
    Uploaded =>
        \A p \in DOMAIN stdout :
            (/\ IsNumbered(stdout, p)
             /\ FitsU32(StripZeros(SubSeq(stdout, PrefixLen + 1, p - 1)))) =>
                /\ pc = "done"
                /\ result.tag = "Ok"
                /\ result.url = WithRevision(url, StripZeros(SubSeq(stdout, PrefixLen + 1, p - 1)))

\* the largest revision, after a prefix that holds digits and spaces and
\* before a tail that holds more of them
C18_Witness ==
    /\ Uploaded
    /\ result.tag = "Ok"
    /\ stdout = <<49, SP, 49, SP, 49, SP, 49, SP, 49>> \o U32Max \o <<SP, SP, 57, SP>>
    /\ result.url = url \o <<45>> \o U32Max

(***************************************************************************)
(* C19                                                                     *)
(***************************************************************************)
\* this step issues a call
CallIssued == Len(calls') = Len(calls) + 1

\* the calls that are given the revision URL
TakesRevUrl(e) == IsCharmSet(e) \/ IsListResources(e) \/ IsRelease(e)

\* C19: in upload_charm_store the revision URL is the `url` field of the
\* first line `charm push` printed; from then on it does not change while
\* the invocation runs; every `charm set`, `charm list-resources` and `charm
\* release` call is given it, and it is what a successful invocation
\* returns, also when the caller's destination identifier is another URL.
C19_OneRevisionUrl ==
    [][/\ (CallIssued /\ IsCharmPush(calls'[Len(calls')]) /\ pc' = "rev_parse") =>
              \E n \in DOMAIN stdout' :
                  IsUrlLine(stdout', n) /\ rev_url' = SubSeq(stdout', 6, n - 1)
       /\ (rev_url # <<>> /\ pc' \in {"rev_parse", "charm_set", "promote", "release"}) =>
              rev_url' = rev_url
       /\ (CallIssued /\ TakesRevUrl(calls'[Len(calls')])) =>
              /\ rev_url # <<>>
              /\ calls'[Len(calls')].call.url = rev_url
       /\ (op = "upload_charm_store" /\ result'.tag = "Ok") => result'.url = rev_url
      ]_vars

\* two channels are released and the URL returned is not the caller's
C19_Witness ==
    /\ op = "upload_charm_store"
    /\ result.tag = "Ok"
    /\ result.url # url
    /\ Len(Releases) = 2
    /\ \E i \in DOMAIN calls : IsCharmSet(calls[i])
    /\ \A i \in DOMAIN calls : TakesRevUrl(calls[i]) => calls[i].call.url = result.url

====
